---- MODULE Spec2Model ----
(***************************************************************************)
(* Student Feedback Management System                                      *)
(* (Assignments/Project/Student_feedback_system.py).                       *)
(*                                                                         *)
(* Two request workers call the service methods Student.register,          *)
(* Student.login, Student.submit_feedback, Admin.login and                 *)
(* Admin.view_feedback concurrently.  Each call opens its own              *)
(* DatabaseConnection (autocommit off) against one MySQL store and appends *)
(* to one log file.  The store runs each connection's statements in a      *)
(* transaction: an INSERT is visible to others only after COMMIT, an       *)
(* INSERT whose unique key is held by another open transaction waits, and  *)
(* one whose key is committed fails with IntegrityError.  Every storage    *)
(* call and every log append may fail; the number of failures in one       *)
(* behaviour is bounded by MaxFaults.                                      *)
(***************************************************************************)
EXTENDS Integers, Sequences, FiniteSets, TLC

\* ------------------------------------------------------------- bounds
MaxCalls  == 2      \* service calls started in one behaviour
MaxFaults == 1      \* injected storage / log-file failures in one behaviour
MaxClock  == 1      \* seconds the wall clock may advance

\* ------------------------------------------------------------- domains
Procs     == {"w1", "w2"}            \* concurrent request workers
Emails    == {"a@x", "b@x"}
Usernames == {"root", "nobody"}
Passwords == {"pw1", "pw2"}
Salts     == {"s3"}                 \* salts generate_password_hash may draw
Names     == {"Ann"}
Courses   == {1, 2}                  \* rows of the courses table (course_id)
Ratings   == {4, 9}
Comments  == {"ok"}

Ops == {"register", "login", "submit_feedback", "admin_login", "view_feedback"}

\* exception classes (lines 72-82) and the two mysql.connector classes used
DatabaseConnectionError == "DatabaseConnectionError"
DuplicateFeedbackError  == "DuplicateFeedbackError"
FileHandlingError       == "FileHandlingError"
AuthenticationError     == "AuthenticationError"
IntegrityError          == "IntegrityError"     \* mysql.connector.IntegrityError
Error                   == "Error"              \* any other mysql.connector.Error
NoErr                   == "none"

VARIABLES
  students, admins, feedback,    \* committed rows of the three tables
  pendingS, pendingF,            \* each worker's open transaction: uncommitted inserts
  orphanS, orphanF,              \* uncommitted inserts of connections that were never closed
  nextStudentId, nextFeedbackId, \* AUTO_INCREMENT counters
  handles,                       \* open storage connections
  log,                           \* app.log: sequence of entries
  now,                           \* wall clock, in seconds
  pc, op, arg,                   \* per worker: position, service method, arguments
  conn, cursor,                  \* per worker: DatabaseConnection.conn / .cursor is open
  fetched,                       \* per worker: rows returned by the last SELECT
  exc,                           \* per worker: exception in flight inside / leaving the with block
  result, ret,                   \* per worker: outcome seen by the caller, returned rows
  calls, faults,                 \* bound counters
  secrets,                       \* plaintext secret each stored identity registered with (history)
  hist                           \* per worker: what happened in the current call (history)

vars == <<students, admins, feedback, pendingS, pendingF, orphanS, orphanF,
          nextStudentId, nextFeedbackId, handles, log, now, pc, op, arg,
          conn, cursor, fetched, exc, result, ret, calls, faults, secrets, hist>>

dbVars   == <<students, admins, feedback, pendingS, pendingF, orphanS, orphanF,
              nextStudentId, nextFeedbackId>>
tables   == <<students, admins, feedback>>

\* ------------------------------------------------------------- password hashing
\* the characters of a string in reverse order
RECURSIVE Scramble(_)
Scramble(w) == IF Len(w) <= 1 THEN w
               ELSE Scramble(SubSeq(w, 2, Len(w))) \o SubSeq(w, 1, 1)

\* does string t occur in string w
Contains(w, t) ==
  \E i \in 1..(Len(w) - Len(t) + 1) : SubSeq(w, i, i + Len(t) - 1) = t

\* werkzeug generate_password_hash: "method$salt$digest"; the digest is a
\* one-way function of salt and password, modelled as an injective encoding
\* in which the password does not occur.
pbkdf2(salt, password) == salt \o "/" \o Scramble(password)

generate_password_hash_plain(password, salt) == "h$" \o salt \o "$" \o password

generate_password_hash(password, salt) == "h$" \o salt \o "$" \o pbkdf2(salt, password)

\* werkzeug check_password_hash: re-derive the digest with the stored salt.
check_password_hash_lax(pwhash, password) == Len(pwhash) > 0

check_password_hash(pwhash, password) ==
  LET salt == SubSeq(pwhash, 3, 4)
  IN  pwhash = generate_password_hash(password, salt)

\* ------------------------------------------------------------- rows
StudentRow(id, name, email, hashed) ==
  [student_id |-> id, name |-> name, email |-> email, password |-> hashed]

AdminRow(id, username, hashed) ==
  [admin_id |-> id, username |-> username, password |-> hashed]

FeedbackRow_clamped(id, fb, t) ==
  [feedback_id |-> id, student_id |-> fb.student_id, course_id |-> fb.course_id,
   rating |-> IF fb.rating > 5 THEN 5 ELSE fb.rating, comments |-> fb.comments,
   created_at |-> t]

\* class Feedback plus the columns the table adds (feedback_id, created_at)
FeedbackRow(id, fb, t) ==
  [feedback_id |-> id, student_id |-> fb.student_id, course_id |-> fb.course_id,
   rating |-> fb.rating, comments |-> fb.comments, created_at |-> t]

\* Feedback.__init__
Feedback(student_id, course_id, rating, comments) ==
  [student_id |-> student_id, course_id |-> course_id, rating |-> rating,
   comments |-> comments]

NoArg == [name |-> "", email |-> "", password |-> "", hashed |-> "",
          fb |-> Feedback(0, 0, 0, "")]


NoHist == [faulted |-> FALSE,      \* a storage call or log append of this call failed
           primary |-> "pending",  \* outcome of the primary operation once it is known
           connFail |-> FALSE,     \* mysql.connector.connect raised
           entered |-> FALSE,      \* __enter__ returned, the with body started
           ran |-> FALSE,          \* the body executed a statement or a commit
           newS |-> {}, newF |-> {},   \* rows this call inserted
           committed |-> FALSE,    \* the body's own commit succeeded
           bodyExc |-> "pending",  \* exception that left the with body (NoErr: none)
           rollback |-> FALSE,     \* __exit__ issued conn.rollback()
           txFail |-> FALSE,       \* the commit / rollback of __exit__ raised
           disc |-> FALSE,         \* disconnect() ran
           relFail |-> FALSE,      \* a step of disconnect() raised
           relLogged |-> FALSE,    \* 'Error during disconnect' reached the log
           relLogFail |-> FALSE,   \* the append of 'Error during disconnect' failed
           pre |-> FALSE,          \* a committed row with this call's key existed at its start
           overlap |-> FALSE,      \* the other worker's call was in progress at some point
           seen |-> {},            \* committed rows of the table at this call's SELECT
           said |-> <<>>,          \* messages whose write_log call of this call returned
           logFail |-> FALSE]      \* a write_log call of this call raised

\* ------------------------------------------------------------- the log file
Entry(kind, who, sid, cid, err) ==
  [ts |-> now, kind |-> kind, who |-> who, sid |-> sid, cid |-> cid, err |-> err]

write_log_twice(lg, entry, ok) == IF ok THEN Append(Append(lg, entry), entry) ELSE lg

write_log_overwrite(lg, entry, ok) == IF ok THEN <<entry>> ELSE lg

\* Logger.write_log: append "[timestamp] message" as one line; ok = FALSE is
\* the open/write raising, reported as FileHandlingError with the file unchanged.
write_log(lg, entry, ok) == IF ok THEN Append(lg, entry) ELSE lg

\* history of one call: the messages of its write_log calls that returned
Say(s, kind, ok) == IF ok THEN Append(s, kind) ELSE s

\* ------------------------------------------------------------- the store
\* rows of the courses table (reference data, never written by the program)
courses == {[course_id |-> c, course_name |-> "course", faculty_name |-> "faculty"] : c \in Courses}

Other(p) == Procs \ {p}

\* students.email UNIQUE: a committed row already has the key
email_taken_never(email) == FALSE

email_taken(email) == \E r \in students : r.email = email

\* students.email UNIQUE: another open transaction holds the key, the INSERT waits
email_locked(p, email) ==
  \/ \E q \in Other(p) : \E r \in pendingS[q] : r.email = email
  \/ \E r \in orphanS : r.email = email

\* UNIQUE KEY unique_feedback (student_id, course_id): a committed row has the key
unique_feedback_never(student_id, course_id) == FALSE

unique_feedback(student_id, course_id) ==
  \E r \in feedback : r.student_id = student_id /\ r.course_id = course_id

\* unique_feedback: another open transaction holds the key, the INSERT waits
feedback_locked(p, student_id, course_id) ==
  \/ \E q \in Other(p) : \E r \in pendingF[q] :
        r.student_id = student_id /\ r.course_id = course_id
  \/ \E r \in orphanF : r.student_id = student_id /\ r.course_id = course_id

\* identities whose plaintext secret is known to be registered (history)
Registered(tbl, who, password) ==
  [tbl |-> tbl, who |-> who, password |-> password]

\* ------------------------------------------------------------- small helpers
CanFail(n) == faults + n <= MaxFaults

H(p, upd) == [hist EXCEPT ![p] = upd]

KeyExists(o, a) ==
  CASE o = "register" -> email_taken(a.email)
    [] o = "submit_feedback" -> unique_feedback(a.fb.student_id, a.fb.course_id)
    [] OTHER -> FALSE

InCall(q) == pc[q] \notin {"idle", "done"}


\* ------------------------------------------------------------- initial state
\* The module has been imported: Logger('app.log') created the empty log file,
\* no connection is open.  The database holds what earlier runs and the
\* provisioning left: one registered student, one administrator, no feedback.
Init ==
  /\ students = {StudentRow(1, "Ann", "a@x", generate_password_hash("pw1", "s1"))}
  /\ admins = {AdminRow(1, "root", generate_password_hash("pw2", "s2"))}
  /\ feedback = {}
  /\ pendingS = [p \in Procs |-> {}]
  /\ pendingF = [p \in Procs |-> {}]
  /\ orphanS = {}
  /\ orphanF = {}
  /\ nextStudentId = 2
  /\ nextFeedbackId = 1
  /\ handles = 0
  /\ log = <<>>
  /\ now = 0
  /\ pc = [p \in Procs |-> "idle"]
  /\ op = [p \in Procs |-> "none"]
  /\ arg = [p \in Procs |-> NoArg]
  /\ conn = [p \in Procs |-> FALSE]
  /\ cursor = [p \in Procs |-> FALSE]
  /\ fetched = [p \in Procs |-> <<>>]
  /\ exc = [p \in Procs |-> NoErr]
  /\ result = [p \in Procs |-> "pending"]
  /\ ret = [p \in Procs |-> <<>>]
  /\ calls = 0
  /\ faults = 0
  /\ secrets = {Registered("students", "a@x", "pw1"), Registered("admins", "root", "pw2")}
  /\ hist = [p \in Procs |-> NoHist]

\* ------------------------------------------------------------- a request arrives
\* The arguments a caller may pass to each service method.
Args(o) ==
  CASE o = "register" ->
         {[NoArg EXCEPT !.name = n, !.email = e, !.password = w,
                        !.hashed = generate_password_hash(w, s)] :
            n \in Names, e \in Emails, w \in Passwords, s \in Salts}
    [] o = "login" ->
         {[NoArg EXCEPT !.email = e, !.password = w] : e \in Emails, w \in Passwords}
    [] o = "admin_login" ->
         {[NoArg EXCEPT !.email = u, !.password = w] : u \in Usernames, w \in Passwords}
    [] o = "submit_feedback" ->
         {[NoArg EXCEPT !.fb = Feedback(r.student_id, c, g, m)] :
            r \in students, c \in Courses, g \in Ratings, m \in Comments}
    [] OTHER -> {NoArg}

FirstStatement(o) ==
  CASE o = "register" -> "reg_insert"
    [] o = "login" -> "login_select"
    [] o = "admin_login" -> "alogin_select"
    [] o = "submit_feedback" -> "sub_select"
    [] OTHER -> "view_select"

\* A caller invokes a service method (register hashes the password first,
\* line 187; submit_feedback gets the Feedback of a logged-in student).
Call(p) ==
  /\ pc[p] \in {"idle", "done"}
  /\ calls < MaxCalls
  \* the workers are interchangeable: the first request goes to w1
  /\ calls = 0 => p = "w1"
  /\ \E o \in Ops : \E a \in Args(o) :
       /\ op' = [op EXCEPT ![p] = o]
       /\ arg' = [arg EXCEPT ![p] = a]
       /\ hist' = [q \in Procs |->
                    IF q = p
                    THEN [NoHist EXCEPT !.pre = KeyExists(o, a),
                                        !.overlap = \E w \in Other(p) : InCall(w)]
                    ELSE [hist[q] EXCEPT !.overlap = @ \/ InCall(q)]]
  /\ pc' = [pc EXCEPT ![p] = "connect"]
  /\ conn' = [conn EXCEPT ![p] = FALSE]
  /\ cursor' = [cursor EXCEPT ![p] = FALSE]
  /\ fetched' = [fetched EXCEPT ![p] = <<>>]
  /\ exc' = [exc EXCEPT ![p] = NoErr]
  /\ result' = [result EXCEPT ![p] = "pending"]
  /\ ret' = [ret EXCEPT ![p] = <<>>]
  /\ calls' = calls + 1
  \* the wall clock (one-second resolution) may have advanced since the
  \* previous request; second 0 is the second of the first request
  /\ \E t \in {now, now + 1} : t <= MaxClock /\ (calls = 0 => t = now) /\ now' = t
  /\ UNCHANGED <<dbVars, handles, log, faults, secrets>>

\* ------------------------------------------------------------- DatabaseConnection
N(b) == IF b THEN 1 ELSE 0

\* where control goes when __enter__ is left: into the with body, or, when
\* connect() raised, straight to the except clauses of the service method
\* (__exit__ is not called for a with statement whose __enter__ raised)
enter_next_always(o, e) == FirstStatement(o)

enter_next(o, e) == IF e = NoErr THEN FirstStatement(o) ELSE "except"

\* DatabaseConnection.connect, called by __enter__.  out names the first call
\* that raises: mysql.connector.connect, conn.cursor, the write_log of the
\* success message, or none.  logged: the best-effort write_log of
\* 'Database connection failed' succeeded.
connect(p, out, logged) ==
  LET opened == out # "connect_fails"
      e == CASE out = "ok" -> NoErr
             [] out = "log_fails" -> FileHandlingError     \* not a mysql Error: not caught
             [] OTHER -> DatabaseConnectionError           \* except Error: raise custom error
      n == N(out # "ok") + N(~logged)
  IN
  /\ out \in {"ok", "log_fails"} => logged
  /\ CanFail(n)
  /\ faults' = faults + n
  /\ conn' = [conn EXCEPT ![p] = opened]
  /\ cursor' = [cursor EXCEPT ![p] = out \in {"ok", "log_fails"}]
  /\ handles' = handles + N(opened)
  /\ log' = CASE out = "ok" ->
                   write_log(log, Entry("Database connected successfully", "", 0, 0, ""), TRUE)
              [] out = "log_fails" ->
                   write_log(log, Entry("Database connected successfully", "", 0, 0, ""), FALSE)
              [] OTHER ->
                   write_log(log, Entry("Database connection failed", "", 0, 0, Error), logged)
  /\ exc' = [exc EXCEPT ![p] = e]
  /\ pc' = [pc EXCEPT ![p] = enter_next(op[p], e)]
  /\ hist' = H(p, [hist[p] EXCEPT
                     !.faulted = out # "ok",
                     !.connFail = ~opened,
                     !.entered = (out = "ok"),
                     !.primary = IF e = DatabaseConnectionError THEN e ELSE @,
                     !.said = IF out \in {"ok", "log_fails"}
                              THEN Say(@, "Database connected successfully", out = "ok")
                              ELSE Say(@, "Database connection failed", logged),
                     !.logFail = out = "log_fails" \/ ~logged])

\* DatabaseConnection.__enter__
DatabaseConnection_enter(p) ==
  /\ pc[p] = "connect"
  /\ \E out \in {"ok", "connect_fails", "cursor_fails", "log_fails"} :
       \E logged \in BOOLEAN : connect(p, out, logged)
  /\ UNCHANGED <<dbVars, now, op, arg, fetched, result, ret, calls, secrets>>


\* ------------------------------------------------------------- statements of a with body
connVars == <<conn, cursor, handles>>
callVars == <<op, arg, calls>>

\* every ordering of a set of rows
Orderings(S) == {s \in [1..Cardinality(S) -> S] : \A r \in S : \E i \in 1..Cardinality(S) : s[i] = r}

\* a statement of the body raises e: control leaves the with block
Raise(p, e, fault) ==
  /\ exc' = [exc EXCEPT ![p] = e]
  /\ pc' = [pc EXCEPT ![p] = "exit"]
  /\ faults' = faults + N(fault)

conn_commit_shared(p) ==
  /\ students' = students \cup UNION {pendingS[q] : q \in Procs}
  /\ feedback' = feedback \cup UNION {pendingF[q] : q \in Procs}
  /\ secrets' = secrets \cup
                  {Registered("students", r.email, arg[p].password) : r \in pendingS[p]}
  /\ pendingS' = [q \in Procs |-> {}]
  /\ pendingF' = [q \in Procs |-> {}]
  /\ UNCHANGED <<admins, orphanS, orphanF, nextStudentId, nextFeedbackId>>

\* conn.commit(): the connection's uncommitted inserts become visible
conn_commit(p) ==
  /\ students' = students \cup pendingS[p]
  /\ feedback' = feedback \cup pendingF[p]
  /\ secrets' = secrets \cup
                  {Registered("students", r.email, arg[p].password) : r \in pendingS[p]}
  /\ pendingS' = [pendingS EXCEPT ![p] = {}]
  /\ pendingF' = [pendingF EXCEPT ![p] = {}]
  /\ UNCHANGED <<admins, orphanS, orphanF, nextStudentId, nextFeedbackId>>

\* cursor.execute / conn.commit raising a mysql Error other than IntegrityError
StorageFails(p) ==
  /\ CanFail(1)
  /\ Raise(p, Error, TRUE)
  /\ hist' = H(p, [hist[p] EXCEPT !.faulted = TRUE, !.ran = TRUE,
                                  !.primary = Error, !.bodyExc = Error])
  /\ UNCHANGED <<dbVars, secrets, log, fetched, ret>>

\* the last statement of a body: write_log(entry) and then either return
\* (e = NoErr) with value v or raise e; a failing append raises
\* FileHandlingError instead
LogThenLeave(p, entry, e, v, prim) ==
  \E ok \in BOOLEAN :
    /\ ok \/ CanFail(1)
    /\ log' = write_log(log, entry, ok)
    /\ Raise(p, IF ok THEN e ELSE FileHandlingError, ~ok)
    /\ ret' = [ret EXCEPT ![p] = IF ok THEN v ELSE <<>>]
    /\ hist' = H(p, [hist[p] EXCEPT !.faulted = @ \/ ~ok, !.primary = prim,
                                    !.bodyExc = IF ok THEN e ELSE FileHandlingError,
                                    !.said = Say(@, entry.kind, ok),
                                    !.logFail = @ \/ ~ok])

\* ---- Student.register (lines 186-201)
Student_register_insert(p) ==
  /\ pc[p] = "reg_insert"
  /\ \/ StorageFails(p)
     \/ /\ ~email_locked(p, arg[p].email)
        /\ email_taken(arg[p].email)              \* 1062 duplicate entry
        /\ Raise(p, IntegrityError, FALSE)
        /\ nextStudentId' = nextStudentId + 1
        /\ hist' = H(p, [hist[p] EXCEPT !.ran = TRUE, !.primary = IntegrityError,
                                        !.bodyExc = IntegrityError])
        /\ UNCHANGED <<students, admins, feedback, pendingS, pendingF, orphanS,
                       orphanF, nextFeedbackId, secrets, log, fetched, ret>>
     \/ /\ ~email_locked(p, arg[p].email)
        /\ ~email_taken(arg[p].email)
        /\ LET row == StudentRow(nextStudentId, arg[p].name, arg[p].email, arg[p].hashed)
           IN  /\ pendingS' = [pendingS EXCEPT ![p] = @ \cup {row}]
               /\ hist' = H(p, [hist[p] EXCEPT !.ran = TRUE, !.newS = @ \cup {row}])
        /\ nextStudentId' = nextStudentId + 1
        /\ pc' = [pc EXCEPT ![p] = "reg_commit"]
        /\ UNCHANGED <<students, admins, feedback, pendingF, orphanS, orphanF,
                       nextFeedbackId, secrets, log, fetched, ret, exc, faults>>
  /\ UNCHANGED <<connVars, callVars, now, result>>

Student_register_commit(p) ==
  /\ pc[p] = "reg_commit"
  /\ \/ StorageFails(p)
     \/ /\ conn_commit(p)
        /\ pc' = [pc EXCEPT ![p] = "reg_log"]
        /\ hist' = H(p, [hist[p] EXCEPT !.committed = TRUE, !.primary = "ok"])
        /\ UNCHANGED <<log, fetched, ret, exc, faults>>
  /\ UNCHANGED <<connVars, callVars, now, result>>

Student_register_log(p) ==
  /\ pc[p] = "reg_log"
  /\ LogThenLeave(p, Entry("Student registered", arg[p].email, 0, 0, ""), NoErr, <<>>, "ok")
  /\ UNCHANGED <<dbVars, secrets, connVars, callVars, now, result, fetched>>

\* ---- Student.login (lines 203-216) and Admin.login (lines 246-259)
login_select(p, at, table, next) ==
  /\ pc[p] = at
  /\ \/ StorageFails(p)
     \/ /\ \E rows \in Orderings({r \in table : r[IF at = "login_select" THEN "email" ELSE "username"] = arg[p].email}) :
             fetched' = [fetched EXCEPT ![p] = rows]
        /\ pc' = [pc EXCEPT ![p] = next]
        /\ hist' = H(p, [hist[p] EXCEPT !.ran = TRUE, !.seen = table])
        /\ UNCHANGED <<dbVars, secrets, log, ret, exc, faults>>
  /\ UNCHANGED <<connVars, callVars, now, result>>

\* row = cursor.fetchone(); if row and check_password_hash(...): log, return row
\* else: log, raise AuthenticationError
login_message_success(who, accepted) == who \o " login success"

\* the message of the branch taken: lines 210 / 213 and 253 / 256
login_message(who, accepted) ==
  who \o (IF accepted THEN " login success" ELSE " login failed")

login_check(p, at, who) ==
  /\ pc[p] = at
  /\ IF fetched[p] # <<>> /\ check_password_hash(fetched[p][1].password, arg[p].password)
     THEN LogThenLeave(p, Entry(login_message(who, TRUE), arg[p].email, 0, 0, ""),
                       NoErr, <<fetched[p][1]>>, "ok")
     ELSE LogThenLeave(p, Entry(login_message(who, FALSE), arg[p].email, 0, 0, ""),
                       AuthenticationError, <<>>, AuthenticationError)
  /\ UNCHANGED <<dbVars, secrets, connVars, callVars, now, result, fetched>>

Student_login_select(p) == login_select(p, "login_select", students, "login_check")

Student_login_check(p) == login_check(p, "login_check", "Student")

Admin_login_select(p) == login_select(p, "alogin_select", admins, "alogin_check")

Admin_login_check(p) == login_check(p, "alogin_check", "Admin")


\* ---- Student.submit_feedback (lines 218-239)
submit_after_select_insert(rows) == "sub_insert"

\* if db.cursor.fetchone(): the duplicate branch, else the INSERT
submit_after_select(rows) == IF rows # <<>> THEN "sub_duplicate" ELSE "sub_insert"

submit_after_insert_log == "sub_log"

\* the statement after the INSERT is db.conn.commit(); the write_log follows it
submit_after_insert == "sub_commit"

Student_submit_select(p) ==
  /\ pc[p] = "sub_select"
  /\ \/ StorageFails(p)
     \/ /\ \E rows \in Orderings({r \in feedback : /\ r.student_id = arg[p].fb.student_id
                                                   /\ r.course_id = arg[p].fb.course_id}) :
             /\ fetched' = [fetched EXCEPT ![p] = rows]
             /\ pc' = [pc EXCEPT ![p] = submit_after_select(rows)]
             /\ hist' = H(p, [hist[p] EXCEPT !.ran = TRUE, !.seen = feedback,
                                !.primary = IF rows # <<>> THEN DuplicateFeedbackError ELSE @])
        /\ UNCHANGED <<dbVars, secrets, log, ret, exc, faults>>
  /\ UNCHANGED <<connVars, callVars, now, result>>

\* if db.cursor.fetchone(): log the attempt, raise DuplicateFeedbackError
Student_submit_duplicate(p) ==
  /\ pc[p] = "sub_duplicate"
  /\ LogThenLeave(p, Entry("Duplicate feedback attempt", "", arg[p].fb.student_id,
                           arg[p].fb.course_id, ""),
                  DuplicateFeedbackError, <<>>, DuplicateFeedbackError)
  /\ UNCHANGED <<dbVars, secrets, connVars, callVars, now, result, fetched>>

Student_submit_insert(p) ==
  /\ pc[p] = "sub_insert"
  /\ \/ StorageFails(p)
     \/ /\ ~feedback_locked(p, arg[p].fb.student_id, arg[p].fb.course_id)
        /\ unique_feedback(arg[p].fb.student_id, arg[p].fb.course_id)   \* 1062 duplicate entry
        /\ Raise(p, IntegrityError, FALSE)
        /\ nextFeedbackId' = nextFeedbackId + 1
        /\ hist' = H(p, [hist[p] EXCEPT !.primary = IntegrityError,
                                        !.bodyExc = IntegrityError])
        /\ UNCHANGED <<students, admins, feedback, pendingS, pendingF, orphanS,
                       orphanF, nextStudentId, secrets, log, fetched, ret>>
     \/ /\ ~feedback_locked(p, arg[p].fb.student_id, arg[p].fb.course_id)
        /\ ~unique_feedback(arg[p].fb.student_id, arg[p].fb.course_id)
        /\ LET row == FeedbackRow(nextFeedbackId, arg[p].fb, now)
           IN  /\ pendingF' = [pendingF EXCEPT ![p] = @ \cup {row}]
               /\ hist' = H(p, [hist[p] EXCEPT !.newF = @ \cup {row}])
        /\ nextFeedbackId' = nextFeedbackId + 1
        /\ pc' = [pc EXCEPT ![p] = submit_after_insert]
        /\ UNCHANGED <<students, admins, feedback, pendingS, orphanS, orphanF,
                       nextStudentId, secrets, log, fetched, ret, exc, faults>>
  /\ UNCHANGED <<connVars, callVars, now, result>>

Student_submit_commit(p) ==
  /\ pc[p] = "sub_commit"
  /\ \/ StorageFails(p)
     \/ /\ conn_commit(p)
        /\ pc' = [pc EXCEPT ![p] = "sub_log"]
        /\ hist' = H(p, [hist[p] EXCEPT !.committed = TRUE, !.primary = "ok"])
        /\ UNCHANGED <<log, fetched, ret, exc, faults>>
  /\ UNCHANGED <<connVars, callVars, now, result>>

Student_submit_log(p) ==
  /\ pc[p] = "sub_log"
  /\ LogThenLeave(p, Entry("Feedback submitted", "", arg[p].fb.student_id,
                           arg[p].fb.course_id, ""), NoErr, <<>>, "ok")
  /\ UNCHANGED <<dbVars, secrets, connVars, callVars, now, result, fetched>>

\* ---- Admin.view_feedback (lines 261-277)
JoinRow(f, s, c) ==
  [feedback_id |-> f.feedback_id, student_id |-> f.student_id, student_name |-> s.name,
   course_id |-> f.course_id, course_name |-> c.course_name,
   faculty_name |-> c.faculty_name, rating |-> f.rating, comments |-> f.comments,
   created_at |-> f.created_at]

\* FROM feedback f JOIN students s ON ... JOIN courses c ON ...
JoinedRows ==
  {j \in UNION {{JoinRow(f, s, c) : s \in {x \in students : x.student_id = f.student_id},
                                    c \in {y \in courses : y.course_id = f.course_id}} :
                f \in feedback} : TRUE}

OrderByCreatedAtAsc(s) == \A i, j \in 1..Len(s) : i < j => s[i].created_at <= s[j].created_at

\* ORDER BY f.created_at DESC: rows with equal timestamps come in any order
OrderByCreatedAtDesc(s) == \A i, j \in 1..Len(s) : i < j => s[i].created_at >= s[j].created_at

Admin_view_select(p) ==
  /\ pc[p] = "view_select"
  /\ \/ StorageFails(p)
     \/ /\ \E rows \in Orderings(JoinedRows) :
             /\ OrderByCreatedAtDesc(rows)
             /\ fetched' = [fetched EXCEPT ![p] = rows]
        /\ pc' = [pc EXCEPT ![p] = "view_log"]
        /\ hist' = H(p, [hist[p] EXCEPT !.ran = TRUE, !.seen = feedback, !.primary = "ok"])
        /\ UNCHANGED <<dbVars, secrets, log, ret, exc, faults>>
  /\ UNCHANGED <<connVars, callVars, now, result>>

Admin_view_log(p) ==
  /\ pc[p] = "view_log"
  /\ LogThenLeave(p, Entry("Admin viewed feedback list", "", 0, 0, ""), NoErr, fetched[p], "ok")
  /\ UNCHANGED <<dbVars, secrets, connVars, callVars, now, result, fetched>>


\* ------------------------------------------------------------- leaving the with block
\* __exit__: "if exc: rollback else: commit"
exit_txn_commit(e) == "commit"

exit_txn(e) == IF e # NoErr THEN "rollback" ELSE "commit"

\* __exit__ wraps rollback/commit in try/except: pass, so self.disconnect()
\* runs whether or not the transaction call raised
exit_disconnects_unless(txFailed) == ~txFailed

exit_disconnects(txFailed) == TRUE

\* DatabaseConnection.disconnect.  rel names the first call that raises:
\* cursor.close (conn.close is then skipped), the write_log of the success
\* message, or none; errLogged: the write_log of 'Error during disconnect'
\* in the except clause succeeded.  Yields the connection state and the log.
disconnect(p, lg, rel, errLogged) ==
  [conn   |-> rel = "cursor_close_fails",
   cursor |-> rel = "cursor_close_fails",
   log    |-> CASE rel = "ok" ->
                     write_log(lg, Entry("Database disconnected successfully", "", 0, 0, ""), TRUE)
                [] rel = "cursor_close_fails" ->
                     write_log(lg, Entry("Error during disconnect", "", 0, 0, Error), errLogged)
                [] OTHER ->
                     write_log(lg, Entry("Error during disconnect", "", 0, 0, FileHandlingError),
                               errLogged)]

\* DatabaseConnection.__exit__
DatabaseConnection_exit(p) ==
  /\ pc[p] = "exit"
  /\ \E txok \in BOOLEAN :
     \E rel \in {"ok", "cursor_close_fails", "log_fails"} :
     \E errLogged \in BOOLEAN :
       LET txn  == exit_txn(exc[p])
           runs == exit_disconnects(~txok)
           d    == IF runs THEN disconnect(p, log, rel, errLogged)
                   ELSE [conn |-> conn[p], cursor |-> cursor[p], log |-> log]
           n    == N(~txok) + N(runs /\ rel # "ok") + N(runs /\ ~errLogged)
           \* uncommitted inserts left after the rollback / commit attempt
           leftS == IF txok THEN {} ELSE pendingS[p]
           leftF == IF txok THEN {} ELSE pendingF[p]
       IN
       /\ (rel = "ok" \/ ~runs) => errLogged
       /\ ~runs => rel = "ok"
       /\ CanFail(n)
       /\ faults' = faults + n
       /\ students' = IF txok /\ txn = "commit" THEN students \cup pendingS[p] ELSE students
       /\ feedback' = IF txok /\ txn = "commit" THEN feedback \cup pendingF[p] ELSE feedback
       /\ secrets' = IF txok /\ txn = "commit"
                     THEN secrets \cup {Registered("students", r.email, arg[p].password) :
                                          r \in pendingS[p]}
                     ELSE secrets
       \* conn.close() discards what is uncommitted; a connection left open keeps it
       /\ orphanS' = IF d.conn THEN orphanS \cup leftS ELSE orphanS
       /\ orphanF' = IF d.conn THEN orphanF \cup leftF ELSE orphanF
       /\ pendingS' = [pendingS EXCEPT ![p] = {}]
       /\ pendingF' = [pendingF EXCEPT ![p] = {}]
       /\ conn' = [conn EXCEPT ![p] = d.conn]
       /\ cursor' = [cursor EXCEPT ![p] = d.cursor]
       /\ handles' = handles - N(conn[p] /\ ~d.conn)
       /\ log' = d.log
       /\ hist' = H(p, [hist[p] EXCEPT
                          !.faulted = @ \/ n > 0,
                          !.rollback = (txn = "rollback"),
                          !.txFail = ~txok,
                          !.disc = runs,
                          !.relFail = runs /\ rel = "cursor_close_fails",
                          !.relLogged = runs /\ rel = "cursor_close_fails" /\ errLogged,
                          !.relLogFail = runs /\ rel = "cursor_close_fails" /\ ~errLogged,
                          !.said = IF ~runs THEN @
                                   ELSE IF rel = "ok"
                                   THEN Say(@, "Database disconnected successfully", TRUE)
                                   ELSE Say(@, "Error during disconnect", errLogged),
                          !.logFail = @ \/ (runs /\ (rel = "log_fails" \/ ~errLogged))])
  \* __exit__ returns None: an exception of the body propagates, a return completes
  /\ pc' = [pc EXCEPT ![p] = IF exc[p] = NoErr THEN "done" ELSE "except"]
  /\ result' = [result EXCEPT ![p] = IF exc[p] = NoErr THEN "ok" ELSE @]
  /\ UNCHANGED <<admins, nextStudentId, nextFeedbackId, callVars, now, fetched, exc, ret>>

\* ------------------------------------------------------------- except clauses
\* the message the except clause of method o that catches e writes to the
\* log before re-raising; "" when the clause only re-raises or none matches
handler_log(o, e) ==
  CASE o = "register" /\ e = IntegrityError -> "Duplicate registration attempt"
    [] o = "register" /\ e = DatabaseConnectionError -> "DB connection error during registration"
    [] o = "submit_feedback" /\ e \notin {DuplicateFeedbackError, DatabaseConnectionError} ->
         "Error during feedback submission"
    [] o = "view_feedback" /\ e # DatabaseConnectionError -> "Error fetching feedback"
    [] OTHER -> ""

\* the exception reaches the except clauses of the service method
Service_except(p) ==
  /\ pc[p] = "except"
  /\ LET msg == handler_log(op[p], exc[p])
     IN  \E ok \in BOOLEAN :
           /\ msg = "" => ok
           /\ ok \/ CanFail(1)
           /\ faults' = faults + N(~ok)
           /\ log' = IF msg = "" THEN log
                     ELSE write_log(log, Entry(msg, arg[p].email, arg[p].fb.student_id,
                                               arg[p].fb.course_id, exc[p]), ok)
           \* a write_log that raises inside the clause replaces the exception
           /\ result' = [result EXCEPT ![p] = IF ok THEN exc[p] ELSE FileHandlingError]
           /\ hist' = H(p, [hist[p] EXCEPT !.faulted = @ \/ ~ok,
                                           !.said = IF msg = "" THEN @ ELSE Say(@, msg, ok),
                                           !.logFail = @ \/ ~ok])
  /\ pc' = [pc EXCEPT ![p] = "done"]
  /\ UNCHANGED <<dbVars, secrets, connVars, callVars, now, fetched, exc, ret>>

\* ------------------------------------------------------------- specification
Next ==
  \E p \in Procs :
       \/ Call(p)
       \/ DatabaseConnection_enter(p)
       \/ Student_register_insert(p)
       \/ Student_register_commit(p)
       \/ Student_register_log(p)
       \/ Student_login_select(p)
       \/ Student_login_check(p)
       \/ Admin_login_select(p)
       \/ Admin_login_check(p)
       \/ Student_submit_select(p)
       \/ Student_submit_duplicate(p)
       \/ Student_submit_insert(p)
       \/ Student_submit_commit(p)
       \/ Student_submit_log(p)
       \/ Admin_view_select(p)
       \/ Admin_view_log(p)
       \/ DatabaseConnection_exit(p)
       \/ Service_except(p)

Spec == Init /\ [][Next]_vars

\* The same program started on a database that earlier runs have filled: a
\* second student (who does not log in here) and two feedback rows of student
\* 1, the older one created a second before the first request of this run.
InitSeeded ==
  /\ students = {StudentRow(1, "Ann", "a@x", generate_password_hash("pw1", "s1")),
                 StudentRow(2, "Ann", "c@x", generate_password_hash("pw2", "s4"))}
  /\ admins = {AdminRow(1, "root", generate_password_hash("pw2", "s2"))}
  /\ feedback = {FeedbackRow(1, Feedback(1, 1, 4, "ok"), -1),
                 FeedbackRow(2, Feedback(1, 2, 4, "ok"), 0)}
  /\ pendingS = [p \in Procs |-> {}]
  /\ pendingF = [p \in Procs |-> {}]
  /\ orphanS = {}
  /\ orphanF = {}
  /\ nextStudentId = 3
  /\ nextFeedbackId = 3
  /\ handles = 0
  /\ log = <<>>
  /\ now = 0
  /\ pc = [p \in Procs |-> "idle"]
  /\ op = [p \in Procs |-> "none"]
  /\ arg = [p \in Procs |-> NoArg]
  /\ conn = [p \in Procs |-> FALSE]
  /\ cursor = [p \in Procs |-> FALSE]
  /\ fetched = [p \in Procs |-> <<>>]
  /\ exc = [p \in Procs |-> NoErr]
  /\ result = [p \in Procs |-> "pending"]
  /\ ret = [p \in Procs |-> <<>>]
  /\ calls = 0
  /\ faults = 0
  /\ secrets = {Registered("students", "a@x", "pw1"), Registered("students", "c@x", "pw2"),
                Registered("admins", "root", "pw2")}
  /\ hist = [p \in Procs |-> NoHist]

SpecSeeded == InitSeeded /\ [][Next]_vars


\* ------------------------------------------------------------- properties
Done(p) == pc[p] = "done"

\* the with block of p's call has been left (by return or by exception)
LeftWith(p) == pc[p] \in {"except", "done"}

SamePair(p, q) ==
  /\ op[p] = "submit_feedback" /\ op[q] = "submit_feedback"
  /\ arg[p].fb.student_id = arg[q].fb.student_id
  /\ arg[p].fb.course_id = arg[q].fb.course_id

RowsOfPair(p) ==
  {r \in feedback : r.student_id = arg[p].fb.student_id /\ r.course_id = arg[p].fb.course_id}

\* C1: two submit_feedback calls for a pair that had no row before them (any
\* row of the pair was inserted by one of the two), with no storage or log
\* failure, end with exactly one success and one DuplicateFeedbackError and
\* exactly one row for the pair, in every interleaving.
C1_OneSuccessOneDuplicate ==
  \A p \in Procs : \A q \in Other(p) :
    (/\ Done(p) /\ Done(q) /\ SamePair(p, q)
     /\ ~hist[p].faulted /\ ~hist[q].faulted
     /\ RowsOfPair(p) \subseteq hist[p].newF \cup hist[q].newF)
    => /\ {result[p], result[q]} = {"ok", DuplicateFeedbackError}
       /\ Cardinality(RowsOfPair(p)) = 1

\* C2: the committed feedback table never holds two rows with the same
\* (student_id, course_id).
C2_AtMostOneRowPerPair ==
  \A r1 \in feedback : \A r2 \in feedback :
    (r1.student_id = r2.student_id /\ r1.course_id = r2.course_id) => r1 = r2

\* two submissions for one pair both reached the INSERT; the store rejected the later one
C2_Witness ==
  \E p \in Procs : \E q \in Other(p) :
    /\ Done(p) /\ Done(q) /\ SamePair(p, q)
    /\ hist[p].committed /\ hist[q].bodyExc = IntegrityError
    /\ Cardinality(RowsOfPair(p)) = 1

\* C3: a call that finished by success, by an expected failure or by a
\* storage error holds no open storage handle: the handles it opened are closed.
C3_HandlesRestored ==
  \A p \in Procs :
    (Done(p) /\ result[p] \in {"ok", DuplicateFeedbackError, IntegrityError,
                               AuthenticationError, DatabaseConnectionError, Error})
    => ~conn[p]

\* C4: a submit_feedback whose insert and commit succeeded and whose log
\* append then failed returns success, and its row is persisted.
C4_LogFailureKeepsSuccess ==
  \A p \in Procs :
    (/\ Done(p) /\ op[p] = "submit_feedback"
     /\ hist[p].committed /\ hist[p].bodyExc = FileHandlingError)
    => /\ result[p] = "ok"
       /\ hist[p].newF \subseteq feedback

\* C5: a call whose primary operation failed with an error reports that error
\* to its caller, whatever happens to the log appends made alongside.
C5_PrimaryErrorNotMasked ==
  \A p \in Procs :
    (Done(p) /\ hist[p].primary \notin {"pending", "ok"}) => result[p] = hist[p].primary


\* C6: when the with block is left normally every row the body inserted is
\* committed and nothing is left uncommitted; when it is left by an exception
\* a rollback was issued, the exception is the one the body raised, and rows
\* the body inserted but did not commit are not in the committed tables.
C6_CommitOrRollback ==
  \A p \in Procs :
    (LeftWith(p) /\ hist[p].entered) =>
      IF exc[p] = NoErr
      THEN /\ hist[p].bodyExc = NoErr
           /\ hist[p].newS \subseteq students
           /\ hist[p].newF \subseteq feedback
           /\ pendingS[p] = {} /\ pendingF[p] = {}
      ELSE /\ hist[p].rollback
           /\ exc[p] = hist[p].bodyExc
           /\ ~hist[p].committed =>
                /\ hist[p].newS \cap students = {}
                /\ hist[p].newF \cap feedback = {}

\* a body inserted a row, its commit raised, and the with block was left
C6_Witness ==
  \E p \in Procs :
    /\ LeftWith(p) /\ hist[p].entered
    /\ hist[p].newF # {} /\ ~hist[p].committed
    /\ exc[p] = Error /\ hist[p].rollback

\* C7: when mysql.connector.connect fails, DatabaseConnectionError leaves the
\* with statement and no statement of the body runs: nothing is selected,
\* inserted or committed by the call; the service methods whose except clause
\* only re-raises hand the same error to their caller.
C7_ConnectFailureSkipsBody ==
  \A p \in Procs :
    hist[p].connFail =>
      /\ LeftWith(p)
      /\ exc[p] = DatabaseConnectionError
      /\ ~hist[p].entered /\ ~hist[p].ran /\ ~hist[p].committed
      /\ hist[p].newS = {} /\ hist[p].newF = {} /\ fetched[p] = <<>>
      /\ pendingS[p] = {} /\ pendingF[p] = {}
      /\ (Done(p) /\ handler_log(op[p], exc[p]) = "") => result[p] = DatabaseConnectionError

C7_Witness ==
  \E p \in Procs :
    /\ Done(p) /\ hist[p].connFail /\ op[p] = "submit_feedback"
    /\ result[p] = DatabaseConnectionError

\* C8: once the with body was entered, disconnect() has run by the time the
\* with block is left, also when the commit or rollback of __exit__ raised
\* (the connection is then closed unless closing itself failed); a failure
\* while releasing is written to the log when the log accepts it and never
\* changes the exception or return that leaves the block.
C8_ReleaseOnExit ==
  \A p \in Procs :
    (LeftWith(p) /\ hist[p].entered) =>
      /\ hist[p].disc
      /\ (hist[p].txFail /\ ~hist[p].relFail) => (~conn[p] /\ ~cursor[p])
      /\ exc[p] = hist[p].bodyExc
      /\ (hist[p].relFail /\ ~hist[p].relLogFail) =>
           \E i \in 1..Len(log) : log[i].kind = "Error during disconnect"

\* the rollback of __exit__ raised and the connection was closed all the same
C8_Witness ==
  \E p \in Procs :
    /\ LeftWith(p) /\ hist[p].entered
    /\ hist[p].txFail /\ hist[p].rollback
    /\ hist[p].disc /\ ~conn[p]

SameEmail(p, q) ==
  /\ op[p] = "register" /\ op[q] = "register"
  /\ arg[p].email = arg[q].email

RowsOfEmail(p) == {r \in students : r.email = arg[p].email}

\* C9: two register calls with the same email, neither hit by a storage or
\* log failure, the email not registered before them (any row with the email
\* was inserted by one of the two): exactly one succeeds (the one whose commit
\* went through), the other fails with the IntegrityError of the unique email
\* key, and one student row has the email.  No two student rows ever share an
\* email.
C9_RegisterOnce ==
  /\ \A r1 \in students : \A r2 \in students : r1.email = r2.email => r1 = r2
  /\ \A p \in Procs : \A q \in Other(p) :
       (/\ Done(p) /\ Done(q) /\ SameEmail(p, q)
        /\ ~hist[p].faulted /\ ~hist[q].faulted
        /\ RowsOfEmail(p) \subseteq hist[p].newS \cup hist[q].newS)
       => /\ {result[p], result[q]} = {"ok", IntegrityError}
          /\ \A w \in {p, q} : result[w] = "ok" <=> hist[w].committed
          /\ \A w \in {p, q} : result[w] = IntegrityError <=> hist[w].bodyExc = IntegrityError
          /\ Cardinality(RowsOfEmail(p)) = 1

\* two overlapping registrations of one email: one committed, one rejected
C9_Witness ==
  \E p \in Procs : \E q \in Other(p) :
    /\ Done(p) /\ Done(q) /\ SameEmail(p, q)
    /\ hist[p].overlap /\ hist[q].overlap
    /\ ~hist[p].pre /\ ~hist[q].pre
    /\ result[p] = "ok" /\ result[q] = IntegrityError


IsLogin(p) == op[p] \in {"login", "admin_login"}

LoginTable(p) == IF op[p] = "login" THEN "students" ELSE "admins"

\* the rows of the identity at the time of the call's SELECT
SeenIdentity(p) ==
  {r \in hist[p].seen : r[IF op[p] = "login" THEN "email" ELSE "username"] = arg[p].email}

\* the identity was stored when the call looked it up, and the secret passed
\* is the one it was registered with
CorrectSecret(p) ==
  /\ SeenIdentity(p) # {}
  /\ Registered(LoginTable(p), arg[p].email, arg[p].password) \in secrets

\* C10 (outcome): a login call (Student.login, Admin.login) not hit by a
\* storage or log failure returns the stored record of the identity when the
\* identity is registered and the secret is the registered one, and fails
\* with AuthenticationError for an unknown identity or another secret.
C10_LoginOutcome ==
  \A p \in Procs :
    (Done(p) /\ IsLogin(p) /\ ~hist[p].faulted) =>
      IF CorrectSecret(p)
      THEN /\ result[p] = "ok"
           /\ \E r \in SeenIdentity(p) : ret[p] = <<r>>
           /\ \A i \in 1..Len(ret[p]) : ret[p][i] \in (IF op[p] = "login" THEN students ELSE admins)
      ELSE /\ result[p] = AuthenticationError
           /\ ret[p] = <<>>

\* C10 (no state change): no step of a login call changes the students,
\* admins or feedback table.
C10_LoginReadOnly ==
  \A p \in Procs :
    (IsLogin(p) /\ InCall(p) /\ pc'[p] # pc[p]) => UNCHANGED tables

\* C10: login succeeds exactly for a registered identity with its registered
\* secret, fails with AuthenticationError otherwise, and changes no table.
C10_Login == [](C10_LoginOutcome) /\ [][C10_LoginReadOnly]_vars

\* a login with the registered secret returned the record; another with a wrong secret failed
C10_Witness ==
  \E p \in Procs : \E q \in Other(p) :
    /\ Done(p) /\ op[p] = "login" /\ result[p] = "ok" /\ Len(ret[p]) = 1
    /\ Done(q) /\ IsLogin(q) /\ result[q] = AuthenticationError
    /\ SeenIdentity(q) # {}

\* ------------------------------------------------------------- C11
IsSubmit(p) == op[p] = "submit_feedback"

\* C11 (outcome): a submit_feedback call that began when a committed row for
\* its (student, course) pair existed, and was hit by no storage or log
\* failure, ends with DuplicateFeedbackError having inserted nothing; a
\* submit_feedback call for a pair whose only rows are its own, whatever rows
\* other students hold for the course, succeeds and adds exactly one row.
C11_SequentialOutcome ==
  \A p \in Procs :
    (Done(p) /\ IsSubmit(p) /\ ~hist[p].faulted) =>
       /\ hist[p].pre => (result[p] = DuplicateFeedbackError /\ hist[p].newF = {})
       /\ RowsOfPair(p) \subseteq hist[p].newF =>
            /\ result[p] = "ok"
            /\ Cardinality(hist[p].newF) = 1
            /\ RowsOfPair(p) = hist[p].newF

\* C11 (table unchanged): no step of a submit_feedback call that began when a
\* committed row for its pair existed changes the feedback table.
C11_DuplicateChangesNothing ==
  \A p \in Procs :
    (IsSubmit(p) /\ hist[p].pre /\ pc[p] # pc'[p] /\ InCall(p)) => feedback' = feedback

\* C11: a sequential duplicate submission fails with DuplicateFeedbackError and
\* leaves the feedback table unchanged; a later submission by a different
\* student for the same course succeeds and adds one row.
C11_SequentialDuplicate == [](C11_SequentialOutcome) /\ [][C11_DuplicateChangesNothing]_vars

\* student 1 was refused a second feedback for a course, then student 2's
\* feedback for that course was accepted
C11_Witness ==
  \E p \in Procs : \E q \in Other(p) :
    /\ Done(p) /\ Done(q) /\ IsSubmit(p) /\ IsSubmit(q)
    /\ arg[p].fb.course_id = arg[q].fb.course_id
    /\ arg[p].fb.student_id # arg[q].fb.student_id
    /\ hist[q].pre /\ result[q] = DuplicateFeedbackError
    /\ ~hist[p].overlap /\ ~hist[p].pre /\ result[p] = "ok"
    /\ hist[p].newF \subseteq feedback /\ Cardinality(hist[p].newF) = 1
    /\ Cardinality({r \in feedback : r.course_id = arg[p].fb.course_id}) = 2

\* ------------------------------------------------------------- C12
\* messages about the connection itself, written by connect() / disconnect()
\* on the success path of any call
ConnectionBookkeeping ==
  {"Database connected successfully", "Database disconnected successfully",
   "Error during disconnect"}

\* C12: a completed call none of whose write_log calls raised has appended at
\* least one entry that describes its outcome (anything but the connection
\* bookkeeping of a successful connect and of disconnect), and that entry is
\* in the log.
C12_EveryCallAudited ==
  \A p \in Procs :
    (Done(p) /\ ~hist[p].logFail) =>
       \E i \in 1..Len(hist[p].said) :
          /\ hist[p].said[i] \notin ConnectionBookkeeping
          /\ \E j \in 1..Len(log) : log[j].kind = hist[p].said[i]

\* ------------------------------------------------------------- C13
\* the log before the step is a prefix of the log after it
LogExtended == Len(log') >= Len(log) /\ SubSeq(log', 1, Len(log)) = log

\* C13: the log is append-only: every step, a commit, a rollback or the
\* closing of a connection included, leaves the entries already in the log in
\* place and in order, so an earlier log is a prefix of every later log.
C13_AppendOnly == [][LogExtended]_vars

\* a call wrote an entry in its with body, was rolled back and disconnected,
\* and its three entries are in the log in the order they were written
C13_Witness ==
  \E p \in Procs :
    /\ Done(p) /\ hist[p].rollback /\ hist[p].disc /\ ~hist[p].txFail
    /\ Len(hist[p].said) = 3
    /\ \E i, j, k \in 1..Len(log) :
         /\ i < j /\ j < k
         /\ log[i].kind = hist[p].said[1]
         /\ log[j].kind = hist[p].said[2]
         /\ log[k].kind = hist[p].said[3]

\* ------------------------------------------------------------- C14
IsView(p) == op[p] = "view_feedback"

\* C14 (result): a view_feedback call that returns yields one joined row for
\* every feedback row committed when its SELECT ran and no other row, each
\* carrying the feedback's own columns, its student's name and its course's
\* name and faculty, in an order in which no row is older than a row before it.
C14_ViewResult ==
  \A p \in Procs :
    (Done(p) /\ IsView(p) /\ result[p] = "ok") =>
       /\ Len(ret[p]) = Cardinality(hist[p].seen)
       /\ \A f \in hist[p].seen :
            \E i \in 1..Len(ret[p]) :
               /\ ret[p][i].feedback_id = f.feedback_id
               /\ ret[p][i].student_id = f.student_id
               /\ ret[p][i].course_id = f.course_id
               /\ ret[p][i].rating = f.rating
               /\ ret[p][i].comments = f.comments
               /\ ret[p][i].created_at = f.created_at
               /\ \E st \in students : /\ st.student_id = f.student_id
                                        /\ ret[p][i].student_name = st.name
               /\ \E c \in courses : /\ c.course_id = f.course_id
                                      /\ ret[p][i].course_name = c.course_name
                                      /\ ret[p][i].faculty_name = c.faculty_name
       /\ \A i, j \in 1..Len(ret[p]) : i < j => ret[p][i].created_at >= ret[p][j].created_at

\* C14 (no state change): no step of a view_feedback call changes a table.
C14_ViewReadOnly ==
  \A p \in Procs : (IsView(p) /\ InCall(p) /\ pc'[p] # pc[p]) => UNCHANGED tables

\* C14: view_feedback returns every committed feedback row exactly once,
\* joined with its student and course, most recent first, and changes no table.
C14_View == [](C14_ViewResult) /\ [][C14_ViewReadOnly]_vars

\* a view returned three rows, two of one second and an older one
C14_Witness ==
  \E p \in Procs :
    /\ Done(p) /\ IsView(p) /\ result[p] = "ok"
    /\ Len(ret[p]) = 3
    /\ ret[p][1].created_at = ret[p][2].created_at
    /\ ret[p][2].created_at > ret[p][3].created_at
    /\ feedback = hist[p].seen

\* ------------------------------------------------------------- C15
LoginSuccessMessages == {"Student login success", "Admin login success"}

SaidSuccess(p) ==
  \E i \in 1..Len(hist[p].said) : hist[p].said[i] \in LoginSuccessMessages

\* C15: a call that has appended a login-success entry is a login call that
\* raises nothing afterwards and returns the stored record of the identity the
\* entry names; a call that fails, with AuthenticationError or otherwise, has
\* appended no login-success entry, and every login-success entry in the log
\* names a registered identity.
C15_SuccessEntryOnlyOnSuccess ==
  /\ \A p \in Procs :
       SaidSuccess(p) =>
          /\ IsLogin(p)
          /\ exc[p] = NoErr
          /\ Done(p) => /\ result[p] = "ok"
                        /\ Len(ret[p]) = 1
                        /\ ret[p][1] \in SeenIdentity(p)
  /\ \A j \in 1..Len(log) :
       log[j].kind \in LoginSuccessMessages =>
          \E r \in secrets :
             /\ r.who = log[j].who
             /\ r.tbl = IF log[j].kind = "Student login success" THEN "students" ELSE "admins"

\* one login was refused and logged as failed, another was accepted and
\* logged as a success
C15_Witness ==
  \E p \in Procs : \E q \in Other(p) :
    /\ Done(p) /\ IsLogin(p) /\ result[p] = AuthenticationError
    /\ hist[p].said = <<"Database connected successfully", "Student login failed",
                        "Database disconnected successfully">>
    /\ Done(q) /\ IsLogin(q) /\ result[q] = "ok" /\ SaidSuccess(q)
    /\ \E j \in 1..Len(log) : log[j].kind \in LoginSuccessMessages

\* ------------------------------------------------------------- C16
\* the entry belongs to p's call: its fields are those of the call's arguments
\* and it carries the message the call passed
EntryOf(p, e, msg) ==
  /\ e.kind = msg
  /\ e.ts = now
  /\ e.who \in {"", arg[p].email}
  /\ e.sid \in {0, arg[p].fb.student_id}
  /\ e.cid \in {0, arg[p].fb.course_id}

\* C16 (one step): a step of a call in which a write_log call returned adds
\* exactly one entry to the end of the log, the whole entry of that call; any
\* other step adds none; no step removes or alters an entry already there.
C16_OneEntryPerWrite ==
  \A p \in Procs :
    pc'[p] # pc[p] =>
      LET k == IF InCall(p) THEN Len(hist'[p].said) - Len(hist[p].said) ELSE 0
      IN  /\ k \in {0, 1}
          /\ Len(log') = Len(log) + k
          /\ LogExtended
          /\ k = 1 => EntryOf(p, log'[Len(log')], hist'[p].said[Len(hist'[p].said)])

Plaintexts == Passwords \cup {r.password : r \in secrets}

\* student rows, committed or held by an open transaction
StoredStudents == students \cup orphanS \cup UNION {pendingS[p] : p \in Procs}

\* C17: no plaintext secret occurs in a field of a stored student or
\* administrator record, committed or not, nor in a value a log entry was
\* formatted from (the identity and the error text; the message text itself
\* is a literal of the program).
C17_NoPlaintext ==
  \A w \in Plaintexts :
    /\ \A r \in StoredStudents :
         ~Contains(r.password, w) /\ ~Contains(r.name, w) /\ ~Contains(r.email, w)
    /\ \A r \in admins : ~Contains(r.password, w) /\ ~Contains(r.username, w)
    /\ \A j \in 1..Len(log) :
         /\ log[j].kind # w
         /\ ~Contains(log[j].who, w)
         /\ ~Contains(log[j].err, w)

\* a registration stored a new record, a login with a wrong secret and a
\* duplicate registration were logged
C17_Witness ==
  /\ \E r \in students : r.student_id > 1 /\ r.password = generate_password_hash("pw2", "s3")
  /\ \E j \in 1..Len(log) : log[j].kind = "Student registered"
  /\ \E j \in 1..Len(log) :
        log[j].kind \in {"Student login failed", "Duplicate registration attempt"}

\* ------------------------------------------------------------- C18
\* messages the except clauses write for an unexpected error
SystemErrorMessages ==
  {"Error during feedback submission", "Error fetching feedback",
   "DB connection error during registration", "Database connection failed"}

DuplicateMessages == {"Duplicate feedback attempt", "Duplicate registration attempt"}

\* the call was refused because the email / the (student, course) pair is taken
DuplicateOutcome(p) ==
  /\ op[p] \in {"register", "submit_feedback"}
  /\ hist[p].bodyExc \in {IntegrityError, DuplicateFeedbackError}

\* C18: a call refused as a duplicate (a second registration of an email, a
\* second feedback for a pair, the loser of a race included) and hit by no
\* storage or log failure has appended a duplicate entry and no system-error
\* entry.
C18_DuplicateIsInformational ==
  \A p \in Procs :
    (Done(p) /\ DuplicateOutcome(p) /\ ~hist[p].faulted) =>
       /\ \E i \in 1..Len(hist[p].said) : hist[p].said[i] \in DuplicateMessages
       /\ \A i \in 1..Len(hist[p].said) : hist[p].said[i] \notin SystemErrorMessages

\* ------------------------------------------------------------- C19
\* C19 (entry implies row): for every 'Feedback submitted by student s for
\* course c' entry in the log a committed feedback row for (s, c) exists.
C19_EntryImpliesRow ==
  \A j \in 1..Len(log) :
    log[j].kind = "Feedback submitted" =>
       \E r \in feedback : r.student_id = log[j].sid /\ r.course_id = log[j].cid

\* C19 (append has no effect on the store): the step that writes the entry,
\* whether the append succeeds or raises, changes no table and no
\* uncommitted row.
C19_AppendKeepsStore ==
  \A p \in Procs : (pc[p] = "sub_log" /\ pc'[p] # pc[p]) => UNCHANGED dbVars

\* C19: a feedback-submitted entry exists only for a committed row, and the
\* outcome of the append never changes what is persisted.
C19_EntryOnlyAfterCommit == [](C19_EntryImpliesRow) /\ [][C19_AppendKeepsStore]_vars

\* one submission was committed and logged; another was committed, its log
\* append failed, and its row is still there without an entry
C19_Witness ==
  /\ \E j \in 1..Len(log) : log[j].kind = "Feedback submitted"
  /\ \E p \in Procs :
       /\ Done(p) /\ IsSubmit(p) /\ hist[p].committed
       /\ hist[p].bodyExc = FileHandlingError
       /\ hist[p].newF # {} /\ hist[p].newF \subseteq feedback
       /\ \A j \in 1..Len(log) :
            log[j].kind = "Feedback submitted" =>
               (log[j].sid # arg[p].fb.student_id \/ log[j].cid # arg[p].fb.course_id)

\* ------------------------------------------------------------- C20
\* C20 (result): a submit_feedback call that returned has inserted exactly one
\* row, that row is committed, and it carries exactly the student id, course
\* id, rating and comments of the Feedback passed, the rating as given,
\* whatever its value.
C20_RowAsGiven ==
  \A p \in Procs :
    (Done(p) /\ IsSubmit(p) /\ result[p] = "ok") =>
       /\ Cardinality(hist[p].newF) = 1
       /\ hist[p].newF \subseteq feedback
       /\ \A r \in hist[p].newF :
            /\ r.student_id = arg[p].fb.student_id
            /\ r.course_id = arg[p].fb.course_id
            /\ r.rating = arg[p].fb.rating
            /\ r.comments = arg[p].fb.comments

\* C20 (one row): a step of a submit_feedback call adds to the feedback table
\* nothing but the one row the call inserted, and removes nothing.
C20_OnlyItsRow ==
  \A p \in Procs :
    (IsSubmit(p) /\ InCall(p) /\ pc'[p] # pc[p]) =>
       \/ feedback' = feedback
       \/ /\ Cardinality(hist[p].newF) = 1
          /\ feedback' = feedback \cup hist[p].newF
          /\ Cardinality(feedback') = Cardinality(feedback) + 1

\* C20: a successful submit_feedback persists exactly one new feedback row with
\* exactly the given student id, course id, rating and comments; the rating is
\* stored as given, with no range check.
C20_PersistsGivenRow == [](C20_RowAsGiven) /\ [][C20_OnlyItsRow]_vars

\* a feedback with a rating outside 1..5 was accepted and stored unchanged
C20_Witness ==
  \E p \in Procs :
    /\ Done(p) /\ IsSubmit(p) /\ result[p] = "ok"
    /\ arg[p].fb.rating > 5
    /\ \E r \in feedback : /\ r \in hist[p].newF
                            /\ r.rating = arg[p].fb.rating
                            /\ r.student_id = arg[p].fb.student_id
                            /\ r.course_id = arg[p].fb.course_id

\* ------------------------------------------------------------- C21
\* the statements of a with body, which use db.cursor and db.conn
BodyPcs ==
  {"reg_insert", "reg_commit", "reg_log", "login_select", "login_check",
   "alogin_select", "alogin_check", "sub_select", "sub_duplicate", "sub_insert",
   "sub_commit", "sub_log", "view_select", "view_log"}

\* C21 (own handle): a call that is in its with body holds the connection and
\* cursor its own connect() opened, a call holds uncommitted rows only on a
\* connection it has open, and the connections held by calls are among the
\* open ones.
C21_OwnHandle ==
  /\ \A p \in Procs :
       /\ pc[p] \in BodyPcs => (conn[p] /\ cursor[p] /\ hist[p].entered)
       /\ (pendingS[p] # {} \/ pendingF[p] # {}) => conn[p]
  /\ Cardinality({p \in Procs : conn[p]}) <= handles

\* C21 (one handle, nothing shared): a step of a call opens a connection only
\* in connect(), one at most and only while the call holds none, and leaves
\* the connection, cursor, uncommitted rows, local variables and position of
\* every other call as they were.
C21_StepTouchesOwnOnly ==
  \A p \in Procs :
    pc'[p] # pc[p] =>
      /\ handles' > handles =>
            (pc[p] = "connect" /\ handles' = handles + 1 /\ ~conn[p] /\ conn'[p])
      /\ handles' < handles =>
            (pc[p] = "exit" /\ handles' = handles - 1 /\ conn[p] /\ ~conn'[p])
      /\ \A q \in Other(p) :
            /\ conn'[q] = conn[q] /\ cursor'[q] = cursor[q]
            /\ pendingS'[q] = pendingS[q] /\ pendingF'[q] = pendingF[q]
            /\ fetched'[q] = fetched[q] /\ exc'[q] = exc[q]
            /\ ret'[q] = ret[q] /\ result'[q] = result[q]
            /\ pc'[q] = pc[q] /\ op'[q] = op[q] /\ arg'[q] = arg[q]

\* C21: every call opens at most one storage handle at a time and uses only
\* the handle it opened itself; concurrent calls share nothing but the
\* database and the log.
C21_HandlesNotShared == [](C21_OwnHandle) /\ [][C21_StepTouchesOwnOnly]_vars

\* two calls are in their with bodies at once, each with its own open
\* connection holding its own uncommitted row
C21_Witness ==
  \E p \in Procs : \E q \in Other(p) :
    /\ pc[p] \in BodyPcs /\ pc[q] \in BodyPcs
    /\ conn[p] /\ conn[q] /\ handles = 2
    /\ pendingF[p] # {} /\ pendingF[q] # {}
    /\ pendingF[p] \cap pendingF[q] = {}

\* ------------------------------------------------------------- C22
\* connect() obtained the connection and raised before returning
ConnectFailedAfterOpen(p) ==
  /\ LeftWith(p)
  /\ ~hist[p].connFail
  /\ ~hist[p].entered

\* C22: when connect() has obtained the connection and then fails (cursor
\* creation raises, or the write_log of 'Database connected successfully'
\* raises), the connection is closed by the time the error is with the caller.
C22_ConnectClosesOnFailure ==
  \A p \in Procs : ConnectFailedAfterOpen(p) => ~conn[p]

\* ------------------------------------------------------------- C23
\* C23: once disconnect() has run, the connection is closed, also when
\* cursor.close() raised.
C23_DisconnectClosesConnection ==
  \A p \in Procs : (LeftWith(p) /\ hist[p].disc) => ~conn[p]

====
